---- MODULE Spec2Model ----
(***************************************************************************)
(* Read-through / write-invalidate cache of the student management API.    *)
(*                                                                         *)
(* StudentService (Services/MemoryCacheService.cs, second half) sits in    *)
(* front of the EF Core persistence (StudentDbContext) and uses an         *)
(* ICacheService that is either MemoryCacheService or RedisCacheService.   *)
(* StudentsController (Data/SeedData.cs, second half) maps the service's   *)
(* results and exceptions to HTTP status codes.                            *)
(*                                                                         *)
(* Requests are handled concurrently: every await in a service method is a *)
(* point where another request may run, so each await is one action.       *)
(***************************************************************************)
EXTENDS Integers, Sequences, FiniteSets, TLC

(***************************************************************************)
(* Bounds of the model.                                                    *)
(***************************************************************************)
MaxId == 2          \* ids handed out by persistence are 1..MaxId
MaxRequests == 3    \* requests issued in one behaviour
MaxTime == 10       \* the clock (minutes) stops here
MaxCalls == 3       \* calls in one script against the cache providers
MaxClock == 5       \* the clock (minutes) of a script stops here

(***************************************************************************)
(* Program constants.                                                      *)
(***************************************************************************)
CollectionTtl == 5  \* TimeSpan.FromMinutes(5) in GetAllStudentsAsync
RecordTtl == 10     \* TimeSpan.FromMinutes(10) in GetStudentByIdAsync

NULL == [type |-> "null"]   \* null / absent
Procs == {1, 2}     \* request slots: two requests can overlap
Ids == 1..MaxId
TickStep == {5}     \* the clock advances in steps of five minutes
Providers == {"memory", "redis"}

(***************************************************************************)
(* Strings are sequences of one-character strings, so that key building    *)
(* and pattern matching work on the characters as the code's do.           *)
(***************************************************************************)
DigitChar == <<"0", "1", "2", "3", "4", "5", "6", "7", "8", "9">>

RECURSIVE IntToString(_)
IntToString(n) ==
    IF n < 10 THEN <<DigitChar[n + 1]>>
    ELSE IntToString(n \div 10) \o <<DigitChar[(n % 10) + 1]>>

\* const string cacheKey = "students:all"
AllKey == <<"s", "t", "u", "d", "e", "n", "t", "s", ":", "a", "l", "l">>

\* var cacheKey = $"student:{id}"
StudentKey(id) == <<"s", "t", "u", "d", "e", "n", "t", ":">> \o IntToString(id)

\* RemoveByPatternAsync("students:*")
SweepPattern == <<"s", "t", "u", "d", "e", "n", "t", "s", ":", "*">>

Keys == {AllKey} \cup {StudentKey(i) : i \in Ids}

\* RegexOptions.IgnoreCase: characters are compared after lower-casing.
ToLower(c) ==
    CASE c = "A" -> "a" [] c = "B" -> "b" [] c = "S" -> "s" [] OTHER -> c

\* pattern.Replace("*", ".*")
RECURSIVE ReplaceStar(_)
ReplaceStar(p) ==
    IF p = <<>> THEN <<>>
    ELSE (IF Head(p) = "*" THEN <<".", "*">> ELSE <<Head(p)>>) \o ReplaceStar(Tail(p))

\* One regex atom against one character ("." matches any character).
AtomMatches(a, c) == a = "." \/ ToLower(a) = ToLower(c)

\* Regex.IsMatch restricted to literals, "." and a postfix "*": whether the
\* regex re from position i matches text starting at position j.
RECURSIVE RegexMatchHere(_, _, _, _)
RegexMatchHere(re, i, text, j) ==
    IF i > Len(re) THEN TRUE
    ELSE IF i + 1 <= Len(re) /\ re[i + 1] = "*"
         THEN \E k \in j..(Len(text) + 1) :
                 /\ \A m \in j..(k - 1) : AtomMatches(re[i], text[m])
                 /\ RegexMatchHere(re, i + 2, text, k)
         ELSE /\ j <= Len(text)
              /\ AtomMatches(re[i], text[j])
              /\ RegexMatchHere(re, i + 1, text, j + 1)

\* Regex.IsMatch is a search: the match may start anywhere in the key.
RegexIsMatch(re, text) ==
    \E j \in 1..(Len(text) + 1) : RegexMatchHere(re, 1, text, j)

\* The glob match of Redis KEYS/SCAN: anchored at both ends, case-sensitive.
RECURSIVE GlobMatchHere(_, _, _, _)
GlobMatchHere(p, i, text, j) ==
    IF i > Len(p) THEN j > Len(text)
    ELSE IF p[i] = "*"
         THEN \E k \in j..(Len(text) + 1) : GlobMatchHere(p, i + 1, text, k)
         ELSE /\ j <= Len(text)
              /\ p[i] = text[j]
              /\ GlobMatchHere(p, i + 1, text, j + 1)

GlobMatch(p, text) == GlobMatchHere(p, 1, text, 1)

(***************************************************************************)
(* Records: Student (the entity and the request body) and StudentDto.      *)
(***************************************************************************)
Fields == {"FullName", "BirthDate", "AverageGrade", "IsActive"}

\* SeedData.SeedAsync: the first seeded student (John Doe).
SeedRow ==
    [FullName |-> "John Doe", BirthDate |-> 2000, AverageGrade |-> 85, IsActive |-> TRUE]

\* Request bodies: two students that differ in every field; the second one
\* carries a caller-chosen StudentId.
Inputs ==
    { [StudentId |-> 0, FullName |-> "Ada Lovelace", BirthDate |-> 1815,
       AverageGrade |-> 99, IsActive |-> TRUE],
      [StudentId |-> 1, FullName |-> "Bob Johnson", BirthDate |-> 2001,
       AverageGrade |-> 78, IsActive |-> FALSE] }

\* Request bodies that violate an attribute of Student: a FullName outside
\* [StringLength(100, MinimumLength = 2)], a missing FullName (the default
\* string.Empty fails [Required]), an AverageGrade outside [Range(0, 100)].
InvalidBodies ==
    { [StudentId |-> 0, FullName |-> "A", BirthDate |-> 1815,
       AverageGrade |-> 99, IsActive |-> TRUE],
      [StudentId |-> 0, FullName |-> "", BirthDate |-> 1815,
       AverageGrade |-> 99, IsActive |-> TRUE],
      [StudentId |-> 1, FullName |-> "Bob Johnson", BirthDate |-> 2001,
       AverageGrade |-> 101, IsActive |-> FALSE],
      [StudentId |-> 1, FullName |-> "Bob Johnson", BirthDate |-> 2001,
       AverageGrade |-> -1, IsActive |-> FALSE] }

Bodies == Inputs \cup InvalidBodies

\* A faulty validation: every body passes.
AnyBody(student) == TRUE

\* ModelState.IsValid for a bound Student: the data annotations of
\* FullName and AverageGrade (BirthDate and IsActive are non-nullable value
\* types, for which [Required] always holds).
IsValid(student) ==
    /\ student.FullName # ""
    /\ Len(student.FullName) >= 2
    /\ Len(student.FullName) <= 100
    /\ student.AverageGrade >= 0
    /\ student.AverageGrade <= 100

\* The column values of a Student entity.
RowOf(student) == [f \in Fields |-> student[f]]

\* new StudentDto { StudentId = s.StudentId, FullName = s.FullName, ... }
ToDto(id, row) ==
    [StudentId |-> id, FullName |-> row.FullName, BirthDate |-> row.BirthDate,
     AverageGrade |-> row.AverageGrade, IsActive |-> row.IsActive]

(***************************************************************************)
(* Objects carry their runtime type: [type |-> "List<StudentDto>", val |-> *)
(* the sequence of DTOs], [type |-> "StudentDto", val |-> the DTO] or      *)
(* [type |-> "String", val |-> a JSON document].                           *)
(***************************************************************************)
ListOf(dtos) == [type |-> "List<StudentDto>", val |-> dtos]

DtoOf(dto) == [type |-> "StudentDto", val |-> dto]

(***************************************************************************)
(* Persistence (StudentDbContext over SQLite): d maps each id to its row   *)
(* or to NULL.                                                             *)
(***************************************************************************)
\* _context.Students.Select(s => new StudentDto {...}).ToListAsync()
RECURSIVE QueryFrom(_, _)
QueryFrom(d, i) ==
    IF i > MaxId THEN <<>>
    ELSE (IF d[i] = NULL THEN <<>> ELSE <<ToDto(i, d[i])>>) \o QueryFrom(d, i + 1)

QueryAll(d) == ListOf(QueryFrom(d, 1))

\* _context.Students.Where(s => s.StudentId == id).Select(...).FirstOrDefaultAsync()
QueryById(d, id) == IF d[id] = NULL THEN NULL ELSE DtoOf(ToDto(id, d[id]))

(***************************************************************************)
(* System.Text.Json as the Redis variant uses it. A document is an array   *)
(* of objects or one object; an object is its list of properties.          *)
(***************************************************************************)
DtoProps == <<"StudentId", "FullName", "BirthDate", "AverageGrade", "IsActive">>

JsonObject(dto) ==
    [kind |-> "object", props |-> [i \in 1..Len(DtoProps) |-> <<DtoProps[i], dto[DtoProps[i]]>>]]

\* JsonSerializer.Serialize(value); null serializes to the document null and
\* a string to a JSON string.
JsonSerialize(tv) ==
    IF tv = NULL THEN [kind |-> "null"]
    ELSE IF tv.type = "String" THEN [kind |-> "string", val |-> tv.val]
    ELSE IF tv.type = "List<StudentDto>"
    THEN [kind |-> "array", items |-> [i \in 1..Len(tv.val) |-> JsonObject(tv.val[i])]]
    ELSE JsonObject(tv.val)

\* The value of property name in a JSON object.
JsonProp(obj, name) ==
    LET hits == {i \in 1..Len(obj.props) : obj.props[i][1] = name}
    IN  obj.props[CHOOSE i \in hits : TRUE][2]

DtoOfJson(obj) == [n \in {DtoProps[i] : i \in 1..Len(DtoProps)} |-> JsonProp(obj, n)]

\* What a thrown JsonException is, as a value.
JsonException == [type |-> "JsonException"]

\* JsonSerializer.Deserialize<T>(json): the document null gives null, and a
\* document that has not the shape of T throws JsonException.
JsonDeserialize(T, json) ==
    IF json.kind = "null" THEN NULL
    ELSE IF T = "IEnumerable<StudentDto>"
    THEN IF json.kind = "array"
         THEN ListOf([i \in 1..Len(json.items) |-> DtoOfJson(json.items[i])])
         ELSE JsonException
    ELSE IF json.kind = "object" THEN DtoOf(DtoOfJson(json)) ELSE JsonException

\* A faulty provider: the JsonException reaches the caller.
Uncaught(d) == d

\* try { return Deserialize } catch (JsonException) { return default; }
CatchJsonException(d) == IF d = JsonException THEN NULL ELSE d

\* value is T
IsInstance(type, T) ==
    \/ type = "List<StudentDto>" /\ T = "IEnumerable<StudentDto>"
    \/ type = "StudentDto" /\ T = "StudentDto"

(***************************************************************************)
(* The cache. st = [cache, keyTracker, evictions]:                         *)
(*   cache       the shared store (the singleton IMemoryCache, or the      *)
(*               Redis server): key -> [value, expiry, owner] or NULL      *)
(*   keyTracker  _keyTracker of the MemoryCacheService instance of each    *)
(*               request slot (the service is registered AddScoped, so     *)
(*               each request has its own instance)                        *)
(*   evictions   post-eviction callbacks queued and not yet run, as        *)
(*               <<instance, key>>                                         *)
(* owner is the instance whose SetAsync registered the entry's eviction    *)
(* callback, 0 when there is none.                                         *)
(***************************************************************************)
Live(c, key, t) == c[key] # NULL /\ t < c[key].expiry

\* The store drops an entry (removed, replaced or expired) and queues its
\* PostEvictionCallback.
Evict(st, key) ==
    IF st.cache[key] = NULL THEN st
    ELSE [st EXCEPT !.cache[key] = NULL,
                    !.evictions = IF st.cache[key].owner = 0 THEN @
                                  ELSE @ \cup {<<st.cache[key].owner, key>>}]

RECURSIVE EvictAll(_, _)
EvictAll(st, keys) ==
    IF keys = {} THEN st
    ELSE LET k == CHOOSE x \in keys : TRUE
         IN  EvictAll(Evict(st, k), keys \ {k})

\* A faulty GetAsync: a hit pushes the entry's expiry ten minutes on
\* (a sliding expiration).
GetSliding(st, key, T, t) ==
    LET e == st.cache[key] IN
    IF e = NULL \/ t >= e.expiry THEN [st |-> st, ret |-> NULL]
    ELSE [st |-> [st EXCEPT !.cache[key].expiry = t + 10], ret |-> e.value]

\* MemoryCacheService.GetAsync<T>(key): [st, ret]
Memory_GetAsync(st, key, T, t) ==
    LET e == st.cache[key] IN
    IF e = NULL THEN [st |-> st, ret |-> NULL]
    ELSE IF t >= e.expiry THEN [st |-> Evict(st, key), ret |-> NULL]
    ELSE [st |-> st,
          ret |-> IF IsInstance(e.value.type, T) THEN e.value
                  ELSE IF e.value.type = "String"
                  THEN CatchJsonException(JsonDeserialize(T, e.value.val))
                  ELSE NULL]

\* A faulty SetAsync: a key that has an entry keeps that entry's expiry.
SetKeepingExpiry(st, p, key, tv, ttl, t) ==
    [st EXCEPT !.cache[key] = [value |-> tv,
                               expiry |-> IF @ = NULL THEN t + ttl ELSE @.expiry,
                               owner |-> p],
               !.keyTracker[p] = @ \cup {key}]

\* MemoryCacheService.SetAsync<T>(key, value, expiration) of instance p
Memory_SetAsync(st, p, key, tv, ttl, t) ==
    LET st1 == Evict(st, key) IN
    [st1 EXCEPT !.cache[key] = [value |-> tv, expiry |-> t + ttl, owner |-> p],
                !.keyTracker[p] = @ \cup {key}]

\* MemoryCacheService.RemoveAsync(key) of instance p
Memory_RemoveAsync(st, p, key) ==
    [Evict(st, key) EXCEPT !.keyTracker[p] = @ \ {key}]

\* MemoryCacheService.RemoveByPatternAsync(pattern) of instance p
Memory_RemoveByPatternAsync(st, p, pattern) ==
    LET regex == ReplaceStar(pattern)
        keysToRemove == {key \in st.keyTracker[p] : RegexIsMatch(regex, key)}
    IN  [EvictAll(st, keysToRemove) EXCEPT !.keyTracker[p] = @ \ keysToRemove]

\* MemoryCacheService.ExistsAsync(key) of instance p
Memory_ExistsAsync(st, p, key) == key \in st.keyTracker[p]

\* RedisCacheService.GetAsync<T>(key): [st, ret]
Redis_GetAsync(st, key, T, t) ==
    [st |-> st,
     ret |-> IF Live(st.cache, key, t)
             THEN CatchJsonException(JsonDeserialize(T, st.cache[key].value.val))
             ELSE NULL]

\* RedisCacheService.SetAsync<T>(key, value, expiration)
Redis_SetAsync(st, key, tv, ttl, t) ==
    [st EXCEPT !.cache[key] =
        [value |-> [type |-> "String", val |-> JsonSerialize(tv)],
         expiry |-> t + ttl, owner |-> 0]]

\* A faulty RemoveAsync: every key is deleted.
RemoveEverything(st, key) == [st EXCEPT !.cache = [k \in DOMAIN @ |-> NULL]]

\* RedisCacheService.RemoveAsync(key)
Redis_RemoveAsync(st, key) == [st EXCEPT !.cache[key] = NULL]

\* RedisCacheService.RemoveByPatternAsync(pattern): server.Keys + KeyDeleteAsync
Redis_RemoveByPatternAsync(st, pattern, t) ==
    LET keys == {key \in DOMAIN st.cache : Live(st.cache, key, t) /\ GlobMatch(pattern, key)}
    IN  [st EXCEPT !.cache = [key \in DOMAIN st.cache |->
                                 IF key \in keys THEN NULL ELSE @[key]]]

\* RedisCacheService.ExistsAsync(key)
Redis_ExistsAsync(st, key, t) == Live(st.cache, key, t)

(***************************************************************************)
(* ICacheService as the service sees it, for the registered provider prov. *)
(***************************************************************************)
GetAsync(prov, st, key, T, t) ==
    IF prov = "memory" THEN Memory_GetAsync(st, key, T, t) ELSE Redis_GetAsync(st, key, T, t)

SetAsync(prov, st, p, key, tv, ttl, t) ==
    IF prov = "memory" THEN Memory_SetAsync(st, p, key, tv, ttl, t)
    ELSE Redis_SetAsync(st, key, tv, ttl, t)

RemoveAsync(prov, st, p, key) ==
    IF prov = "memory" THEN Memory_RemoveAsync(st, p, key) ELSE Redis_RemoveAsync(st, key)

RemoveByPatternAsync(prov, st, p, pattern, t) ==
    IF prov = "memory" THEN Memory_RemoveByPatternAsync(st, p, pattern)
    ELSE Redis_RemoveByPatternAsync(st, pattern, t)

\* A call to the Redis server can fail (connection error, timeout); the
\* in-process store cannot.
CacheFailures(prov) == IF prov = "redis" THEN {FALSE, TRUE} ELSE {FALSE}

(***************************************************************************)
(* State.                                                                  *)
(***************************************************************************)
VARIABLES
    provider,    \* the ICacheService registered in Program.cs
    db,          \* the Students table: id -> row or NULL
    nextId,      \* the next AUTOINCREMENT id
    cache,       \* the shared store: key -> [value, expiry, owner] or NULL
    keyTracker,  \* _keyTracker of each slot's MemoryCacheService instance
    evictions,   \* queued post-eviction callbacks <<instance, key>>
    now,         \* the clock, in minutes
    req,         \* the request handled in each slot
    hist,        \* history of the run (observation only, never read by the code)
    bench,       \* two providers driven directly by one script (see Script_*)
    logger,      \* the client's Logger class: its static logs buffer
    view         \* the client's student list component: its refs and pending calls

vars == <<provider, db, nextId, cache, keyTracker, evictions, now, req, hist, bench,
          logger, view>>

\* A slot with no request. pc is the await the request stands at and tmp
\* the method's local; the other fields observe what the request did:
\*   hit          it was answered from the cache
\*   dbq          persistence reads it made
\*   dbWrote      it committed a change
\*   cacheFail    a cache call of it failed
\*   dbFail       a persistence call of it failed
\*   invTried     invalidation steps it attempted
\*   didSet       it stored a cache entry
\*   quiet        no other request was in flight while it ran
\*   expiredAtGet the entry it looked up was there but past its expiry
\*                (observed of a request that runs alone)
\*   settled      since it began no mutation was in flight, and every
\*                committed mutation had returned success before
\*   staleHit     it returned a cached value that persistence did not hold
\*   startEmpty   the cache had no live entry when it began (observed of a
\*                request that runs alone)
\*   pred         of a read or delete that runs alone: the request that
\*                returned last before it began (see Summary)
IdleReq ==
    [pc |-> "idle", op |-> "none", id |-> 0, input |-> NULL, tmp |-> NULL,
     hit |-> FALSE, dbq |-> 0, dbWrote |-> FALSE, cacheFail |-> FALSE,
     dbFail |-> FALSE, invTried |-> {}, didSet |-> FALSE, quiet |-> TRUE,
     expiredAtGet |-> FALSE, settled |-> FALSE, staleHit |-> FALSE,
     startEmpty |-> FALSE, pred |-> NULL, status |-> 0, body |-> NULL]

InFlight(q) == req[q].pc # "idle"

Reads == {"GetAll", "GetById"}

Mutations == {"Create", "Update", "Delete"}

Store == [cache |-> cache, keyTracker |-> keyTracker, evictions |-> evictions]

SetStore(st) ==
    /\ cache' = st.cache
    /\ keyTracker' = st.keyTracker
    /\ evictions' = st.evictions

\* What the cache holds at time t: value and expiry of each live key.
LiveView(c, t) ==
    [key \in DOMAIN c |->
        IF Live(c, key, t) THEN [value |-> c[key].value, expiry |-> c[key].expiry]
        ELSE NULL]

\* The keys, patterns, values, requested types and TTLs the script uses.
BenchKeys == { <<"a", ":", "1">>, <<"b", "a", ":", "1">> }

BenchPatterns == { <<"a", ":", "*">>, <<"A", ":", "*">> }

BenchValues ==
    { DtoOf(ToDto(1, SeedRow)),
      [type |-> "String", val |-> JsonObject(ToDto(1, SeedRow))] }

BenchTypes == {"StudentDto", "IEnumerable<StudentDto>"}

\* A record is stored for RecordTtl, a string for CollectionTtl.
BenchTtl(v) == IF v.type = "StudentDto" THEN RecordTtl ELSE CollectionTtl

\* A store with no entry; the in-process variant has one MemoryCacheService
\* instance per request slot over the one IMemoryCache.
EmptyStore ==
    [cache |-> [key \in BenchKeys |-> NULL],
     keyTracker |-> [p \in Procs |-> {}],
     evictions |-> {}]

\* mem and red are the stores of the two variants, clock the time, calls the
\* number of calls made, last the call made last with what each variant
\* answered, setMem and setRed what the calls so far say each key holds:
\* the value and expiry of its latest SetAsync, NULL after a removal.
BenchInit ==
    [mem |-> EmptyStore, red |-> EmptyStore, clock |-> 0, calls |-> 0, last |-> NULL,
     setMem |-> [key \in BenchKeys |-> NULL],
     setRed |-> [key \in BenchKeys |-> NULL]]

(***************************************************************************)
(* The client (student-management-client): the Logger class and the        *)
(* student list component, as they are after the module is loaded and      *)
(* before the component is mounted.                                        *)
(***************************************************************************)
\* private static maxLogs = 10000. The model keeps the comparison of log()
\* and scales the limit, so that a full buffer is a short sequence.
maxLogs == 3

\* Calls of Logger.log in one run.
MaxLogCalls == 5

\* Largest backend collection; the component is mounted against any size
\* from 0 up to it.
MaxStudents == 2

\* API calls the component issues in one run.
MaxApiCalls == 4

\* const batchSize = 50
batchSize == 50

\* LogEntry.level
Levels == {"info", "error"}

\* private static logs: LogEntry[] = []. since and last are history: the
\* entries logged since the buffer was last cleared, and the last method
\* called.
LoggerInit == [logs |-> <<>>, calls |-> 0, since |-> <<>>, last |-> "none"]

\* const students = ref<Student[]>([]), loading = ref(true),
\* error = ref<string | null>(null), currentPage = ref(0),
\* hasMore = ref(true), isLoadingMore = ref(false). fetching counts the
\* fetchStudents runs awaiting the API, loadingMore lists the
\* loadMoreStudents runs awaiting it (each with the startIndex it computed);
\* backend is the collection the API serves. run, ignored and apiCalls are
\* history.
ViewInit ==
    [mounted |-> FALSE, backend |-> 0,
     students |-> <<>>, loading |-> TRUE, error |-> NULL,
     currentPage |-> 0, hasMore |-> TRUE, isLoadingMore |-> FALSE,
     fetching |-> 0, loadingMore |-> <<>>,
     run |-> NULL, ignored |-> FALSE, apiCalls |-> 0]

Init ==
    /\ provider \in Providers
    /\ db = [i \in Ids |-> IF i = 1 THEN SeedRow ELSE NULL]
    /\ nextId = 2
    /\ cache = [key \in Keys |-> NULL]
    /\ keyTracker = [p \in Procs |-> {}]
    /\ evictions = {}
    /\ now = 0
    /\ req = [p \in Procs |-> IdleReq]
    /\ hist = [prev |-> NULL, issued |-> 0, notFound |-> {}, lostInvalidation |-> FALSE]
    /\ bench = BenchInit
    /\ logger = LoggerInit
    /\ view = ViewInit

(***************************************************************************)
(* StudentsController: the HTTP status of each action's outcomes.          *)
(***************************************************************************)
\* catch (Exception ex) { return StatusCode(500, ...); }
ExceptionStatus == 500

\* The status for the value the service returned (ret = NULL: null/false).
ResultStatus(op, ret) ==
    CASE op = "GetAll"  -> 200
      [] op = "GetById" -> IF ret = NULL THEN 404 ELSE 200
      [] op = "Create"  -> 201
      [] op = "Update"  -> IF ret = NULL THEN 404 ELSE 200
      [] op = "Delete"  -> IF ret = NULL THEN 404 ELSE 204

\* Ok(value) / CreatedAtAction(..., value) carry the value; NotFound and
\* NoContent carry no record.
ResultBody(op, ret) == IF op = "Delete" THEN NULL ELSE ret

\* The statuses of a mutation that succeeded: Ok, CreatedAtAction, NoContent.
SuccessStatus == {200, 201, 204}

\* What a read (op, id) remembers of the request pv that returned last
\* before it began: its operation and response, when pv ran alone and was
\* the same read answered 200, or a mutation that succeeded on a record the
\* read covers; and what a delete remembers of a delete of the same id that
\* succeeded; nothing otherwise.
Summary(pv, op, id) ==
    IF /\ pv # NULL
       /\ pv.quiet
       /\ \/ op \in Reads /\ pv.op = op /\ pv.id = id /\ pv.status = 200
          \/ /\ op \in Reads
             /\ pv.op \in Mutations
             /\ pv.status \in SuccessStatus
             /\ op = "GetAll" \/ pv.id = id
          \/ op = "Delete" /\ pv.op = "Delete" /\ pv.id = id /\ pv.status = 204
    THEN [op |-> pv.op, body |-> pv.body]
    ELSE NULL

\* The response is sent: the slot's request r ends with status and body and
\* the slot is free again. The history keeps what the request did as
\* hist.prev.
Respond(p, r, status, body) ==
    LET done == [r EXCEPT !.pc = "done", !.status = status, !.body = body,
                          !.tmp = NULL, !.input = NULL, !.settled = FALSE]
    IN  /\ req' = [req EXCEPT ![p] = IdleReq]
        /\ hist' = [hist EXCEPT
              !.prev = done,
              !.notFound = IF r.op = "GetById" /\ status = 404 /\ r.id >= nextId
                           THEN @ \cup {r.id} ELSE @,
              !.lostInvalidation = @ \/ (r.dbWrote /\ status = 500)]
        /\ UNCHANGED <<bench, logger, view>>

\* The service method returns ret to the controller.
Return(p, r, ret) == Respond(p, r, ResultStatus(r.op, ret), ResultBody(r.op, ret))

\* An exception leaves the service method; the controller's catch answers.
Throw(p, r) == Respond(p, r, ExceptionStatus, NULL)

\* The request moves on to its next await.
Goto(p, r, pc) ==
    /\ req' = [req EXCEPT ![p] = [r EXCEPT !.pc = pc]]
    /\ UNCHANGED <<hist, bench, logger, view>>

(***************************************************************************)
(* A request arrives and takes the first free slot p. The DI scope of the  *)
(* slot's previous request is gone, and with it that request's             *)
(* MemoryCacheService: the new request gets a new instance with an empty   *)
(* _keyTracker, and nothing can observe the old instance any more.         *)
(***************************************************************************)
Begin(p, op, id, input, pc) ==
    /\ ~InFlight(p)
    /\ \A o \in Procs : o < p => InFlight(o)
    /\ hist.issued < MaxRequests
    /\ req' = [q \in Procs |->
          IF q = p
          THEN LET alone == \A o \in Procs \ {p} : ~InFlight(o) IN
               [IdleReq EXCEPT !.pc = pc, !.op = op, !.id = id, !.input = input,
                   !.quiet = alone,
                   !.settled = /\ ~hist.lostInvalidation
                               /\ \A o \in Procs \ {p} : req[o].op \notin Mutations,
                   !.startEmpty = alone /\ \A key \in Keys : ~Live(cache, key, now),
                   !.pred = IF alone THEN Summary(hist.prev, op, id) ELSE NULL]
          ELSE IF ~InFlight(q) THEN req[q]
          ELSE [req[q] EXCEPT !.quiet = FALSE, !.pred = NULL,
                              !.startEmpty = FALSE, !.expiredAtGet = FALSE,
                              !.settled = @ /\ op \notin Mutations]]
    /\ hist' = [hist EXCEPT !.issued = @ + 1]
    /\ keyTracker' = [keyTracker EXCEPT ![p] = {}]
    /\ evictions' = {e \in evictions : e[1] # p}
    /\ cache' = [key \in Keys |->
          IF cache[key] # NULL /\ cache[key].owner = p
          THEN [cache[key] EXCEPT !.owner = 0] ELSE cache[key]]
    /\ UNCHANGED <<provider, db, nextId, now, bench, logger, view>>

\* if (!ModelState.IsValid) return BadRequest(ModelState): the request is
\* answered before the controller calls the service, so it never becomes a
\* request in flight.
BadRequestStatus == 400

BadRequest(p, op, id) ==
    /\ ~InFlight(p)
    /\ \A o \in Procs : o < p => InFlight(o)
    /\ hist.issued < MaxRequests
    /\ hist' = [hist EXCEPT
          !.issued = @ + 1,
          !.prev = [IdleReq EXCEPT !.pc = "done", !.op = op, !.id = id,
                                   !.status = BadRequestStatus]]
    /\ UNCHANGED <<provider, db, nextId, cache, keyTracker, evictions, now, req, bench, logger, view>>

\* [HttpGet] GetStudents
GetStudents(p) == Begin(p, "GetAll", 0, NULL, "ga_get")

\* [HttpGet("{id}")] GetStudent
GetStudent(p) == \E id \in Ids : Begin(p, "GetById", id, NULL, "gi_get")

\* [HttpPost] CreateStudent; ids are handed out up to MaxId.
CreateStudent(p) ==
    \E input \in Bodies :
       IF IsValid(input)
       THEN /\ nextId + Cardinality({q \in Procs : req[q].pc = "cr_save"}) <= MaxId
            /\ Begin(p, "Create", 0, input, "cr_save")
       ELSE BadRequest(p, "Create", 0)

\* [HttpPut("{id}")] UpdateStudent
UpdateStudent(p) ==
    \E id \in Ids, input \in Bodies :
       IF IsValid(input)
       THEN Begin(p, "Update", id, input, "up_find")
       ELSE BadRequest(p, "Update", id)

\* [HttpDelete("{id}")] DeleteStudent
DeleteStudent(p) == \E id \in Ids : Begin(p, "Delete", id, NULL, "de_find")

(***************************************************************************)
(* StudentService. Each action is one await of a service method; a failed  *)
(* await throws, and no service method catches anything.                   *)
(***************************************************************************)
\* A call to persistence can fail (SQLite error, timeout).
DbFailures == {FALSE, TRUE}

\* A faulty handling of a persistence failure: the method returns null
\* instead of letting the exception out.
SwallowDbFailure(p, r) ==
    /\ Return(p, [r EXCEPT !.dbFail = TRUE], NULL)
    /\ UNCHANGED <<db, nextId>>

\* The cache call of request r failed: the exception leaves the method.
CacheThrow(p, r) ==
    /\ Throw(p, [r EXCEPT !.cacheFail = TRUE])
    /\ UNCHANGED <<cache, keyTracker, evictions>>

\* The persistence call of request r failed: the exception leaves the method.
DbThrow(p, r) ==
    /\ Throw(p, [r EXCEPT !.dbFail = TRUE])
    /\ UNCHANGED <<db, nextId>>

\* What persistence holds for a cache key.
Persisted(key) == IF key = AllKey THEN QueryAll(db)
                  ELSE QueryById(db, CHOOSE i \in Ids : StudentKey(i) = key)

\* var cached = await _cacheService.GetAsync<T>(cacheKey);
\* if (cached != null) return cached;
ReadCache(p, key, T, missPc) ==
    /\ \E fail \in CacheFailures(provider) :
          LET r == req[p] IN
          IF fail THEN CacheThrow(p, r)
          ELSE LET g == GetAsync(provider, Store, key, T, now)
                   r1 == [r EXCEPT !.expiredAtGet =
                             r.quiet /\ cache[key] # NULL /\ now >= cache[key].expiry]
               IN  /\ SetStore(g.st)
                   /\ IF g.ret # NULL
                      THEN Return(p, [r1 EXCEPT !.hit = TRUE,
                                         !.staleHit = r.settled /\ g.ret # Persisted(key)],
                                  g.ret)
                      ELSE Goto(p, r1, missPc)
    /\ UNCHANGED <<provider, db, nextId, now>>

\* await _cacheService.SetAsync(cacheKey, value, ttl); return value;
WriteCache(p, key, ttl) ==
    /\ \E fail \in CacheFailures(provider) :
          LET r == req[p] IN
          IF fail THEN CacheThrow(p, r)
          ELSE /\ SetStore(SetAsync(provider, Store, p, key, r.tmp, ttl, now))
               /\ Return(p, [r EXCEPT !.didSet = TRUE], r.tmp)
    /\ UNCHANGED <<provider, db, nextId, now>>

\* A faulty read-through: the value read from persistence is returned and
\* never stored.
ReturnWithoutCaching(p) ==
    /\ req[p].pc \in {"ga_set", "gi_set"}
    /\ Return(p, req[p], req[p].tmp)
    /\ UNCHANGED <<provider, db, nextId, cache, keyTracker, evictions, now>>

\* A faulty GetStudentByIdAsync: what the query gave is stored under the
\* record key whether a row was found or not.
QueryCachingNotFound(p) ==
    /\ req[p].pc = "gi_query"
    /\ Goto(p, [req[p] EXCEPT !.tmp = QueryById(db, req[p].id), !.dbq = @ + 1], "gi_set")
    /\ UNCHANGED <<provider, db, nextId, cache, keyTracker, evictions, now>>

\* A faulty DeleteStudentAsync: an id with no row is answered as deleted.
FindIgnoringAbsence(p) ==
    /\ req[p].pc = "de_find"
    /\ Goto(p, [req[p] EXCEPT !.tmp = IF db[req[p].id] = NULL
                                      THEN [type |-> "Boolean", val |-> TRUE]
                                      ELSE db[req[p].id],
                              !.dbq = @ + 1],
            IF db[req[p].id] = NULL THEN "inv1" ELSE "de_save")
    /\ UNCHANGED <<provider, db, nextId, cache, keyTracker, evictions, now>>

\* A faulty UpdateStudentAsync: the cache is invalidated whether the row
\* exists or not.
FindThenInvalidate(p) ==
    /\ req[p].pc = "up_find"
    /\ Goto(p, [req[p] EXCEPT !.tmp = db[req[p].id], !.dbq = @ + 1],
            IF db[req[p].id] = NULL THEN "inv1" ELSE "up_save")
    /\ UNCHANGED <<provider, db, nextId, cache, keyTracker, evictions, now>>

\* GetAllStudentsAsync: the cache lookup
GetAllStudentsAsync_Get(p) ==
    /\ req[p].pc = "ga_get"
    /\ ReadCache(p, AllKey, "IEnumerable<StudentDto>", "ga_query")

\* GetAllStudentsAsync: _context.Students.Select(...).ToListAsync()
GetAllStudentsAsync_Query(p) ==
    /\ req[p].pc = "ga_query"
    /\ \E fail \in DbFailures :
          LET r == req[p] IN
          IF fail THEN DbThrow(p, r)
          ELSE /\ Goto(p, [r EXCEPT !.tmp = QueryAll(db), !.dbq = @ + 1], "ga_set")
               /\ UNCHANGED <<db, nextId>>
    /\ UNCHANGED <<provider, cache, keyTracker, evictions, now>>

\* GetAllStudentsAsync: SetAsync(cacheKey, students, TimeSpan.FromMinutes(5))
GetAllStudentsAsync_Set(p) ==
    /\ req[p].pc = "ga_set"
    /\ WriteCache(p, AllKey, CollectionTtl)

\* GetStudentByIdAsync: the cache lookup
GetStudentByIdAsync_Get(p) ==
    /\ req[p].pc = "gi_get"
    /\ ReadCache(p, StudentKey(req[p].id), "StudentDto", "gi_query")

\* GetStudentByIdAsync: the query, and return null when there is no row
GetStudentByIdAsync_Query(p) ==
    /\ req[p].pc = "gi_query"
    /\ \E fail \in DbFailures :
          LET r == req[p]
              student == QueryById(db, r.id)
              r1 == [r EXCEPT !.tmp = student, !.dbq = @ + 1]
          IN  IF fail THEN DbThrow(p, r)
              ELSE /\ IF student = NULL THEN Return(p, r1, NULL)
                      ELSE Goto(p, r1, "gi_set")
                   /\ UNCHANGED <<db, nextId>>
    /\ UNCHANGED <<provider, cache, keyTracker, evictions, now>>

\* GetStudentByIdAsync: SetAsync(cacheKey, student, TimeSpan.FromMinutes(10))
GetStudentByIdAsync_Set(p) ==
    /\ req[p].pc = "gi_set"
    /\ WriteCache(p, StudentKey(req[p].id), RecordTtl)

\* A faulty CreateStudentAsync: the StudentId of the request body is kept
\* when it names an id of the table.
SaveWithSuppliedId(p) ==
    /\ req[p].pc = "cr_save"
    /\ LET r == req[p]
           row == RowOf(r.input)
           id == IF r.input.StudentId \in Ids THEN r.input.StudentId ELSE nextId
       IN  /\ db' = [db EXCEPT ![id] = row]
           /\ nextId' = IF id = nextId THEN nextId + 1 ELSE nextId
           /\ Goto(p, [r EXCEPT !.id = id, !.dbWrote = TRUE,
                          !.tmp = DtoOf(ToDto(id, row))], "inv1")
    /\ UNCHANGED <<provider, cache, keyTracker, evictions, now>>

\* CreateStudentAsync: student.StudentId = 0; Add; SaveChangesAsync
CreateStudentAsync_Save(p) ==
    /\ req[p].pc = "cr_save"
    /\ \E fail \in DbFailures :
          LET r == req[p]
              row == RowOf(r.input)
          IN  IF fail THEN DbThrow(p, r)
              ELSE /\ db' = [db EXCEPT ![nextId] = row]
                   /\ nextId' = nextId + 1
                   /\ Goto(p, [r EXCEPT !.id = nextId, !.dbWrote = TRUE,
                                  !.tmp = DtoOf(ToDto(nextId, row))], "inv1")
    /\ UNCHANGED <<provider, cache, keyTracker, evictions, now>>

\* UpdateStudentAsync: FindAsync(id), and return null when there is no row
UpdateStudentAsync_Find(p) ==
    /\ req[p].pc = "up_find"
    /\ \E fail \in DbFailures :
          LET r == req[p]
              existingStudent == db[r.id]
              r1 == [r EXCEPT !.tmp = existingStudent, !.dbq = @ + 1]
          IN  IF fail THEN Throw(p, [r EXCEPT !.dbFail = TRUE])
              ELSE IF existingStudent = NULL THEN Return(p, r1, NULL)
              ELSE Goto(p, r1, "up_save")
    /\ UNCHANGED <<provider, db, nextId, cache, keyTracker, evictions, now>>

\* A faulty UpdateStudentAsync: IsActive is not assigned.
SaveWithoutIsActive(p) ==
    /\ req[p].pc = "up_save"
    /\ LET r == req[p]
           row == [RowOf(r.input) EXCEPT !.IsActive = r.tmp.IsActive]
       IN  /\ db' = [db EXCEPT ![r.id] = row]
           /\ UNCHANGED nextId
           /\ Goto(p, [r EXCEPT !.tmp = DtoOf(ToDto(r.id, row)), !.dbWrote = TRUE], "inv1")
    /\ UNCHANGED <<provider, cache, keyTracker, evictions, now>>

\* UpdateStudentAsync: the four assignments and SaveChangesAsync. EF writes
\* the columns that differ from the entity as FindAsync loaded it (r.tmp);
\* when the row is gone by then the UPDATE affects no row and
\* SaveChangesAsync throws DbUpdateConcurrencyException.
UpdateStudentAsync_Save(p) ==
    /\ req[p].pc = "up_save"
    /\ \E fail \in DbFailures :
          LET r == req[p]
              row == RowOf(r.input)
              modified == {f \in Fields : row[f] # r.tmp[f]}
              r1 == [r EXCEPT !.tmp = DtoOf(ToDto(r.id, row))]
          IN  IF fail \/ (modified # {} /\ db[r.id] = NULL) THEN DbThrow(p, r)
              ELSE IF modified = {}
              THEN /\ UNCHANGED <<db, nextId>>
                   /\ Goto(p, r1, "inv1")
              ELSE /\ db' = [db EXCEPT ![r.id] =
                               [f \in Fields |-> IF f \in modified THEN row[f] ELSE @[f]]]
                   /\ UNCHANGED nextId
                   /\ Goto(p, [r1 EXCEPT !.dbWrote = TRUE], "inv1")
    /\ UNCHANGED <<provider, cache, keyTracker, evictions, now>>

\* DeleteStudentAsync: FindAsync(id), and return false when there is no row
DeleteStudentAsync_Find(p) ==
    /\ req[p].pc = "de_find"
    /\ \E fail \in DbFailures :
          LET r == req[p]
              student == db[r.id]
              r1 == [r EXCEPT !.tmp = student, !.dbq = @ + 1]
          IN  IF fail THEN Throw(p, [r EXCEPT !.dbFail = TRUE])
              ELSE IF student = NULL THEN Return(p, r1, NULL)
              ELSE Goto(p, r1, "de_save")
    /\ UNCHANGED <<provider, db, nextId, cache, keyTracker, evictions, now>>

\* DeleteStudentAsync: Remove(student); SaveChangesAsync. When the row is
\* gone by then SaveChangesAsync throws DbUpdateConcurrencyException.
DeleteStudentAsync_Save(p) ==
    /\ req[p].pc = "de_save"
    /\ \E fail \in DbFailures :
          LET r == req[p] IN
          IF fail \/ db[r.id] = NULL THEN DbThrow(p, r)
          ELSE /\ db' = [db EXCEPT ![r.id] = NULL]
               /\ UNCHANGED nextId
               /\ Goto(p, [r EXCEPT !.dbWrote = TRUE,
                              !.tmp = [type |-> "Boolean", val |-> TRUE]], "inv1")
    /\ UNCHANGED <<provider, cache, keyTracker, evictions, now>>

(***************************************************************************)
(* InvalidateStudentCacheAsync(studentId): three awaits in a row.          *)
(***************************************************************************)
\* A faulty record key: the collection key is removed twice and the
\* record's own key never.
WrongRecordKey(studentId) == AllKey

\* $"student:{studentId}"
InvalidateRecordKey(studentId) == StudentKey(studentId)

\* "students:all"
InvalidateCollectionKey == AllKey

\* "students:*"
InvalidatePattern == SweepPattern

\* One await of the invalidation: step n leaves the store as st. After the
\* last one the service method returns its result.
InvalidateStep(p, n, st, nextPc) ==
    /\ \E fail \in CacheFailures(provider) :
          LET r == [req[p] EXCEPT !.invTried = @ \cup {n}] IN
          IF fail THEN CacheThrow(p, r)
          ELSE /\ SetStore(st)
               /\ IF nextPc = "done" THEN Return(p, r, r.tmp)
                  ELSE Goto(p, r, nextPc)
    /\ UNCHANGED <<provider, db, nextId, now>>

\* await _cacheService.RemoveAsync($"student:{studentId}")
Invalidate_RemoveRecord(p) ==
    /\ req[p].pc = "inv1"
    /\ InvalidateStep(p, 1,
          RemoveAsync(provider, Store, p, InvalidateRecordKey(req[p].id)), "inv2")

\* await _cacheService.RemoveAsync("students:all")
Invalidate_RemoveCollection(p) ==
    /\ req[p].pc = "inv2"
    /\ InvalidateStep(p, 2,
          RemoveAsync(provider, Store, p, InvalidateCollectionKey), "inv3")

\* await _cacheService.RemoveByPatternAsync("students:*")
Invalidate_Sweep(p) ==
    /\ req[p].pc = "inv3"
    /\ InvalidateStep(p, 3,
          RemoveByPatternAsync(provider, Store, p, InvalidatePattern, now), "done")

(***************************************************************************)
(* The environment: time and the store's eviction callbacks.               *)
(***************************************************************************)
Tick ==
    /\ \E d \in TickStep : now + d <= MaxTime /\ now' = now + d
    /\ UNCHANGED <<provider, db, nextId, cache, keyTracker, evictions, req, hist, bench, logger, view>>

\* EvictionCallback = (k, v, reason, state) => _keyTracker.TryRemove(k, out _)
EvictionCallback ==
    /\ \E e \in evictions :
          /\ keyTracker' = [keyTracker EXCEPT ![e[1]] = @ \ {e[2]}]
          /\ evictions' = evictions \ {e}
    /\ UNCHANGED <<provider, db, nextId, cache, now, req, hist, bench, logger, view>>

Next ==
    \/ \E p \in Procs : GetStudents(p)
    \/ \E p \in Procs : GetStudent(p)
    \/ \E p \in Procs : CreateStudent(p)
    \/ \E p \in Procs : UpdateStudent(p)
    \/ \E p \in Procs : DeleteStudent(p)
    \/ \E p \in Procs : GetAllStudentsAsync_Get(p)
    \/ \E p \in Procs : GetAllStudentsAsync_Query(p)
    \/ \E p \in Procs : GetAllStudentsAsync_Set(p)
    \/ \E p \in Procs : GetStudentByIdAsync_Get(p)
    \/ \E p \in Procs : GetStudentByIdAsync_Query(p)
    \/ \E p \in Procs : GetStudentByIdAsync_Set(p)
    \/ \E p \in Procs : CreateStudentAsync_Save(p)
    \/ \E p \in Procs : UpdateStudentAsync_Find(p)
    \/ \E p \in Procs : UpdateStudentAsync_Save(p)
    \/ \E p \in Procs : DeleteStudentAsync_Find(p)
    \/ \E p \in Procs : DeleteStudentAsync_Save(p)
    \/ \E p \in Procs : Invalidate_RemoveRecord(p)
    \/ \E p \in Procs : Invalidate_RemoveCollection(p)
    \/ \E p \in Procs : Invalidate_Sweep(p)
    \/ Tick
    \/ EvictionCallback

Spec == Init /\ [][Next]_vars

(***************************************************************************)
(* The same program with a client that sends one request at a time: a      *)
(* request begins only when none is in flight, and time passes between the *)
(* requests. No eviction callback is ever queued here: by the time an      *)
(* entry is dropped, the instance that stored it is gone.                  *)
(***************************************************************************)
NoneInFlight == \A q \in Procs : ~InFlight(q)

NextSeq ==
    \/ \E p \in Procs : NoneInFlight /\ GetStudents(p)
    \/ \E p \in Procs : NoneInFlight /\ GetStudent(p)
    \/ \E p \in Procs : NoneInFlight /\ CreateStudent(p)
    \/ \E p \in Procs : NoneInFlight /\ UpdateStudent(p)
    \/ \E p \in Procs : NoneInFlight /\ DeleteStudent(p)
    \/ \E p \in Procs : GetAllStudentsAsync_Get(p)
    \/ \E p \in Procs : GetAllStudentsAsync_Query(p)
    \/ \E p \in Procs : GetAllStudentsAsync_Set(p)
    \/ \E p \in Procs : GetStudentByIdAsync_Get(p)
    \/ \E p \in Procs : GetStudentByIdAsync_Query(p)
    \/ \E p \in Procs : GetStudentByIdAsync_Set(p)
    \/ \E p \in Procs : CreateStudentAsync_Save(p)
    \/ \E p \in Procs : UpdateStudentAsync_Find(p)
    \/ \E p \in Procs : UpdateStudentAsync_Save(p)
    \/ \E p \in Procs : DeleteStudentAsync_Find(p)
    \/ \E p \in Procs : DeleteStudentAsync_Save(p)
    \/ \E p \in Procs : Invalidate_RemoveRecord(p)
    \/ \E p \in Procs : Invalidate_RemoveCollection(p)
    \/ \E p \in Procs : Invalidate_Sweep(p)
    \/ NoneInFlight /\ Tick

SpecSeq == Init /\ [][NextSeq]_vars

(***************************************************************************)
(* The two cache providers driven directly: one script of ICacheService    *)
(* calls and time steps is applied to a MemoryCacheService store and to a  *)
(* RedisCacheService store at once, and what each call answered is kept in *)
(* bench.last. The in-process variant is called through the instance of    *)
(* request slot p; the Redis variant has one server whoever calls.         *)
(***************************************************************************)
ServiceVars == <<provider, db, nextId, cache, keyTracker, evictions, now, req, hist>>

\* The keys that are live in c and not in c2, and those held in c and not in c2.
Gone(c, c2, t) == {key \in DOMAIN c : Live(c, key, t) /\ ~Live(c2, key, t)}

Dropped(c, c2) == {key \in DOMAIN c : c[key] # NULL /\ c2[key] = NULL}

\* What the calls say the keys hold, after a SetAsync and after a removal.
AfterSet(f, key, v, ttl, t) == [f EXCEPT ![key] = [value |-> v, expiry |-> t + ttl]]

AfterRemoval(f, keys) == [key \in DOMAIN f |-> IF key \in keys THEN NULL ELSE f[key]]

\* One call of the script: the stores become mem2 and red2, the call
\* answered memRet and redRet, and the calls now say setMem2 and setRed2.
\* The record of the call keeps what held for its key when it was made.
ScriptCall(op, p, key, T, mem2, red2, memRet, redRet, setMem2, setRed2) ==
    /\ bench.calls < MaxCalls
    /\ bench' = [bench EXCEPT
          !.mem = mem2, !.red = red2, !.calls = @ + 1,
          !.setMem = setMem2, !.setRed = setRed2,
          !.last =
             [op |-> op, inst |-> p, key |-> key, T |-> T, at |-> bench.clock,
              mem |-> memRet, red |-> redRet,
              wasMem |-> IF key \in BenchKeys THEN bench.setMem[key] ELSE NULL,
              wasRed |-> IF key \in BenchKeys THEN bench.setRed[key] ELSE NULL,
              liveMem |-> key \in BenchKeys /\ Live(bench.mem.cache, key, bench.clock),
              liveRed |-> key \in BenchKeys /\ Live(bench.red.cache, key, bench.clock),
              liveKeysMem |-> {k \in BenchKeys : Live(bench.mem.cache, k, bench.clock)},
              liveKeysRed |-> {k \in BenchKeys : Live(bench.red.cache, k, bench.clock)},
              goneMem |-> Gone(bench.mem.cache, mem2.cache, bench.clock),
              goneRed |-> Gone(bench.red.cache, red2.cache, bench.clock),
              insts |-> (IF bench.last = NULL THEN {} ELSE bench.last.insts) \cup {p}]]
    /\ UNCHANGED <<ServiceVars, logger, view>>

\* GetAsync<T>(key). It neither reads nor writes the instance's
\* _keyTracker, so the script makes it through instance 1.
Script_GetAsync ==
    \E p \in {1}, key \in BenchKeys, T \in BenchTypes :
       LET m == Memory_GetAsync(bench.mem, key, T, bench.clock)
           r == Redis_GetAsync(bench.red, key, T, bench.clock)
       IN  ScriptCall("Get", p, key, T, m.st, r.st, m.ret, r.ret,
                      bench.setMem, bench.setRed)

\* SetAsync(key, value, expiration)
Script_SetAsync ==
    \E p \in Procs, key \in BenchKeys, v \in BenchValues :
       ScriptCall("Set", p, key, v.type,
                  Memory_SetAsync(bench.mem, p, key, v, BenchTtl(v), bench.clock),
                  Redis_SetAsync(bench.red, key, v, BenchTtl(v), bench.clock),
                  NULL, NULL,
                  AfterSet(bench.setMem, key, v, BenchTtl(v), bench.clock),
                  AfterSet(bench.setRed, key, v, BenchTtl(v), bench.clock))

\* RemoveAsync(key)
Script_RemoveAsync ==
    \E p \in Procs, key \in BenchKeys :
       ScriptCall("Remove", p, key, "none",
                  Memory_RemoveAsync(bench.mem, p, key),
                  Redis_RemoveAsync(bench.red, key),
                  NULL, NULL,
                  AfterRemoval(bench.setMem, {key}),
                  AfterRemoval(bench.setRed, {key}))

\* RemoveByPatternAsync(pattern); which keys it removes is read off the
\* stores.
Script_RemoveByPatternAsync ==
    \E p \in Procs, pattern \in BenchPatterns :
       LET m == Memory_RemoveByPatternAsync(bench.mem, p, pattern)
           r == Redis_RemoveByPatternAsync(bench.red, pattern, bench.clock)
       IN  ScriptCall("RemoveByPattern", p, pattern, "none", m, r, NULL, NULL,
                      AfterRemoval(bench.setMem, Dropped(bench.mem.cache, m.cache)),
                      AfterRemoval(bench.setRed, Dropped(bench.red.cache, r.cache)))

\* ExistsAsync(key)
Script_ExistsAsync ==
    \E p \in Procs, key \in BenchKeys :
       ScriptCall("Exists", p, key, "none", bench.mem, bench.red,
                  Memory_ExistsAsync(bench.mem, p, key),
                  Redis_ExistsAsync(bench.red, key, bench.clock),
                  bench.setMem, bench.setRed)

\* Time passes.
Script_Tick ==
    /\ \E d \in TickStep :
          /\ bench.clock + d <= MaxClock
          /\ bench' = [bench EXCEPT !.clock = @ + d]
    /\ UNCHANGED <<ServiceVars, logger, view>>

\* A queued post-eviction callback of the in-process store runs.
Script_EvictionCallback ==
    /\ \E e \in bench.mem.evictions :
          bench' = [bench EXCEPT !.mem.keyTracker[e[1]] = @ \ {e[2]},
                                 !.mem.evictions = @ \ {e}]
    /\ UNCHANGED <<ServiceVars, logger, view>>

\* The in-process store's scan drops the entries that are past their expiry.
Script_ExpirationScan ==
    /\ LET expired == {key \in BenchKeys :
                          /\ bench.mem.cache[key] # NULL
                          /\ bench.clock >= bench.mem.cache[key].expiry}
       IN  /\ expired # {}
           /\ bench' = [bench EXCEPT !.mem = EvictAll(bench.mem, expired)]
    /\ UNCHANGED <<ServiceVars, logger, view>>

InitCache == Init /\ provider = "memory"

NextCache ==
    \/ Script_GetAsync
    \/ Script_SetAsync
    \/ Script_RemoveAsync
    \/ Script_RemoveByPatternAsync
    \/ Script_ExistsAsync
    \/ Script_Tick
    \/ Script_EvictionCallback
    \/ Script_ExpirationScan

SpecCache == InitCache /\ [][NextCache]_vars

(***************************************************************************)
(* The client. The Logger class and the student list component run in the  *)
(* browser, apart from the server: their actions leave the server's state  *)
(* alone. The component's own calls of the logger are not part of its      *)
(* actions; the logger is called by any code, at any time.                 *)
(***************************************************************************)
ServerVars == <<ServiceVars, bench>>

\* this.logs.push(entry)
Push(logs, entry) == Append(logs, entry)

\* log() that never drops an entry.
LogWithoutLimit(logs, entry) == Push(logs, entry)

\* Logger.log: this.logs.push(entry);
\* if (this.logs.length > this.maxLogs) { this.logs.shift(); }
Logger_log_Buffer(logs, entry) ==
    LET pushed == Push(logs, entry)
    IN  IF Len(pushed) > maxLogs THEN Tail(pushed) ELSE pushed

\* static log(functionName, featureTag, moduleTag, parameters, level, message).
\* The entry's timestamp is the position of the call in the run.
Logger_log ==
    /\ logger.calls < MaxLogCalls
    /\ \E level \in Levels :
          LET entry == [timestamp |-> logger.calls + 1, level |-> level]
          IN  logger' = [logs  |-> Logger_log_Buffer(logger.logs, entry),
                         calls |-> logger.calls + 1,
                         since |-> Append(logger.since, entry),
                         last  |-> "log"]
    /\ UNCHANGED <<ServerVars, view>>

\* static getAllLogs(): return [...this.logs]
Logger_getAllLogs == logger.logs

\* static clearLogs(): this.logs = []
Logger_clearLogs ==
    /\ logger.last = "log"
    /\ logger' = [logger EXCEPT !.logs = <<>>, !.since = <<>>, !.last = "clearLogs"]
    /\ UNCHANGED <<ServerVars, view>>

\* studentApi.getAllStudents() against a backend of n students: their ids,
\* in the order the API returns them.
Collection(n) == [i \in 1..n |-> i]

\* The errors a rejected API call carries: err.response?.data?.message and
\* err.message, "" where absent.
ApiErrors ==
    { [response |-> "", message |-> "Network Error"],
      [response |-> "An error occurred while retrieving students",
       message  |-> "Request failed with status code 500"],
      [response |-> "", message |-> ""] }

\* a || b of two strings
OrElse(a, b) == IF a # "" THEN a ELSE b

\* err.response?.data?.message || err.message || 'Failed to fetch students',
\* as a value of type string | null
ErrorMessage(err) ==
    [type  |-> "string",
     value |-> OrElse(OrElse(err.response, err.message), "Failed to fetch students")]

\* Array.prototype.slice(start, end) with 0 <= start <= end
Slice(s, start, end) ==
    SubSeq(s, start + 1, IF end < Len(s) THEN end ELSE Len(s))

\* The template: v-if="loading", v-else-if="error",
\* v-else-if="students.length === 0", v-else the table with ref="parentRef".
RetryShown == ~view.loading /\ view.error # NULL
TableShown == ~view.loading /\ view.error = NULL /\ Len(view.students) > 0

\* fetchStudents up to its await: loading.value = true; error.value = null;
\* students.value = await studentApi.getAllStudents()
fetchStudents(v) ==
    [v EXCEPT !.loading = TRUE, !.error = NULL,
              !.fetching = @ + 1, !.apiCalls = @ + 1]

\* onMounted(() => { fetchStudents(); ... }), against a backend of any size
onMounted ==
    /\ ~view.mounted
    /\ \E n \in 0..MaxStudents :
          view' = fetchStudents([view EXCEPT !.mounted = TRUE, !.backend = n])
    /\ UNCHANGED <<ServerVars, logger>>

\* <button @click="fetchStudents">Retry</button>
Retry ==
    /\ view.mounted
    /\ RetryShown
    /\ view.apiCalls < MaxApiCalls
    /\ view' = fetchStudents(view)
    /\ UNCHANGED <<ServerVars, logger>>

\* A catch block that leaves the spinner on.
CatchWithoutFinally(v, err) ==
    [v EXCEPT !.error = ErrorMessage(err),
              !.fetching = @ - 1,
              !.run = [failed |-> TRUE, before |-> v.students, after |-> v.students]]

\* The catch block of fetchStudents, then its finally block.
Catch(v, err) ==
    [v EXCEPT !.error = ErrorMessage(err), !.loading = FALSE,
              !.fetching = @ - 1,
              !.run = [failed |-> TRUE, before |-> v.students, after |-> v.students]]

\* fetchStudents, the API call resolved: students.value = <the collection>;
\* finally loading.value = false
fetchStudents_Resolved ==
    /\ view.fetching > 0
    /\ view' = [view EXCEPT !.students = Collection(view.backend),
                            !.loading = FALSE,
                            !.fetching = @ - 1,
                            !.run = [failed |-> FALSE, before |-> view.students,
                                     after |-> Collection(view.backend)]]
    /\ UNCHANGED <<ServerVars, logger>>

\* fetchStudents, the API call rejected: error.value = errorMessage;
\* finally loading.value = false
fetchStudents_Rejected ==
    /\ view.fetching > 0
    /\ \E err \in ApiErrors : view' = Catch(view, err)
    /\ UNCHANGED <<ServerVars, logger>>

\* loadMoreStudents up to its await:
\* if (isLoadingMore.value || !hasMore.value) return;
\* isLoadingMore.value = true; const startIndex = currentPage.value * batchSize;
\* const allStudents = await studentApi.getAllStudents()
loadMoreStudents(v) ==
    IF v.isLoadingMore \/ ~v.hasMore
    THEN v
    ELSE [v EXCEPT !.isLoadingMore = TRUE,
                   !.loadingMore = Append(@, v.currentPage * batchSize),
                   !.apiCalls = @ + 1]

\* handleScroll: if (!parentRef.value) return;
\* if (<near the bottom> && hasMore.value && !isLoadingMore.value) loadMoreStudents()
\* A scroll event reaches the handler whenever the container is rendered.
handleScroll ==
    /\ view.mounted
    /\ TableShown
    /\ view.apiCalls < MaxApiCalls
    /\ \E nearBottom \in BOOLEAN :
          IF nearBottom /\ view.hasMore /\ ~view.isLoadingMore
          THEN view' = loadMoreStudents(view)
          ELSE view' = [view EXCEPT !.ignored = @ \/ (nearBottom /\ view.isLoadingMore)]
    /\ UNCHANGED <<ServerVars, logger>>

\* s without its i-th element
Without(s, i) == SubSeq(s, 1, i - 1) \o SubSeq(s, i + 1, Len(s))

\* The end of a run that leaves the flag set.
EndKeepingFlag(v, i) == [v EXCEPT !.loadingMore = Without(@, i)]

\* finally { isLoadingMore.value = false; }, ending the i-th pending run
loadMoreStudents_Finally(v, i) ==
    [v EXCEPT !.isLoadingMore = FALSE, !.loadingMore = Without(@, i)]

\* loadMoreStudents, the API call of one of its runs resolved: the batch is
\* cut at the startIndex the run computed before the call.
loadMoreStudents_Resolved ==
    /\ \E i \in 1..Len(view.loadingMore) :
          LET startIndex  == view.loadingMore[i]
              allStudents == Collection(view.backend)
              nextBatch   == Slice(allStudents, startIndex, startIndex + batchSize)
              appended    == view.students \o nextBatch
          IN  IF Len(nextBatch) = 0
              THEN view' = loadMoreStudents_Finally([view EXCEPT !.hasMore = FALSE], i)
              ELSE view' = loadMoreStudents_Finally(
                               [view EXCEPT !.students = appended,
                                            !.currentPage = @ + 1,
                                            !.hasMore = IF Len(appended) >= Len(allStudents)
                                                        THEN FALSE ELSE @], i)
    /\ UNCHANGED <<ServerVars, logger>>

\* loadMoreStudents, the API call rejected: the catch block only logs;
\* finally isLoadingMore.value = false
loadMoreStudents_Rejected ==
    /\ \E i \in 1..Len(view.loadingMore) :
          view' = loadMoreStudents_Finally(view, i)
    /\ UNCHANGED <<ServerVars, logger>>

InitClient == Init /\ provider = "memory"

NextClient ==
    \/ Logger_log
    \/ Logger_clearLogs
    \/ onMounted
    \/ Retry
    \/ fetchStudents_Resolved
    \/ fetchStudents_Rejected
    \/ handleScroll
    \/ loadMoreStudents_Resolved
    \/ loadMoreStudents_Rejected

SpecClient == InitClient /\ [][NextClient]_vars

\* Every API call ends: axios is created with timeout: 10000, so a call
\* that gets no response is rejected after ten seconds.
ApiCallEnds ==
    /\ WF_vars(fetchStudents_Resolved \/ fetchStudents_Rejected)
    /\ WF_vars(loadMoreStudents_Resolved \/ loadMoreStudents_Rejected)

SpecClientLive == SpecClient /\ ApiCallEnds

(***************************************************************************)
(* Properties. They are stated over Last, the request that returned last,  *)
(* and over the state it left.                                             *)
(***************************************************************************)
Last == hist.prev

Returned(op) == Last # NULL /\ Last.op = op

\* What the cache answers for key right now, read as a T.
Cached(key, T) == GetAsync(provider, Store, key, T, now).ret

\* C1: after a successful create, update or delete on student id X has
\* returned, with no other request in flight, the cache holds no entry for
\* the record key of X and none for the collection key; and a
\* GetAllStudentsAsync that comes next and is answered is not served from
\* the cache: it queries persistence.
C1_InvalidationAfterMutation ==
    /\ ( /\ NoneInFlight
         /\ Last # NULL
         /\ Last.op \in Mutations
         /\ Last.quiet
         /\ Last.status \in SuccessStatus )
       => /\ cache[StudentKey(Last.id)] = NULL
          /\ cache[AllKey] = NULL
    /\ ( /\ Returned("GetAll")
         /\ Last.pred # NULL
         /\ Last.pred.op \in Mutations )
       => /\ ~Last.hit
          /\ Last.status = 200 => Last.dbq = 1

\* C1, its case: an update was committed and returned 200, and the
\* GetAllStudentsAsync that came next was answered.
C1_Witness ==
    /\ NoneInFlight
    /\ Returned("GetAll")
    /\ Last.pred # NULL
    /\ Last.pred.op = "Update"
    /\ Last.status = 200
    /\ cache[AllKey] # NULL

\* C2: once a mutation has returned, a read issued afterwards never returns
\* a cached value that persistence does not hold. (staleHit is observed of
\* reads during which no mutation was in flight and before which every
\* committed mutation had returned success.)
C2_ReadYourWrites == Last # NULL => ~Last.staleHit

\* C3: GetAllStudentsAsync that starts from an empty cache queries
\* persistence once, stores the collection and returns what persistence
\* holds; GetAllStudentsAsync that follows a GetAllStudentsAsync, with no
\* expiry of the entry between them, is served from the cache, makes no
\* persistence query and returns the same collection, the empty one
\* included.
C3_ReadThroughCollection ==
    (Returned("GetAll") /\ Last.quiet /\ Last.status = 200) =>
       /\ Last.startEmpty =>
             /\ ~Last.hit
             /\ Last.dbq = 1
             /\ Last.didSet
             /\ NoneInFlight => Last.body = QueryAll(db)
       /\ (Last.pred # NULL /\ Last.pred.op = "GetAll" /\ ~Last.expiredAtGet) =>
             /\ Last.hit
             /\ Last.dbq = 0
             /\ Last.body = Last.pred.body

\* C3, its case: a repeated GetAllStudentsAsync was served the empty
\* collection from the cache.
C3_Witness ==
    /\ Returned("GetAll")
    /\ Last.hit
    /\ Last.pred # NULL
    /\ Last.pred.op = "GetAll"
    /\ Last.body = ListOf(<<>>)

\* C4: the first GetStudentByIdAsync(I) after CreateStudentAsync returned
\* the record with id I misses the cache, queries persistence once, returns
\* the created record and stores it under the record key; a
\* GetStudentByIdAsync(I) that follows a GetStudentByIdAsync(I), with no
\* expiry between them, returns the same record with no persistence query.
C4_ReadThroughRecord ==
    (Returned("GetById") /\ Last.quiet /\ Last.pred # NULL /\ Last.status # 500) =>
       /\ Last.pred.op = "Create" =>
             /\ ~Last.hit
             /\ Last.dbq = 1
             /\ Last.status = 200
             /\ Last.body = Last.pred.body
             /\ Last.didSet
             /\ NoneInFlight =>
                   /\ cache[StudentKey(Last.id)] # NULL
                   /\ Live(cache, StudentKey(Last.id), now) =>
                         Cached(StudentKey(Last.id), "StudentDto") = Last.body
       /\ (Last.pred.op = "GetById" /\ ~Last.expiredAtGet) =>
             /\ Last.hit
             /\ Last.dbq = 0
             /\ Last.body = Last.pred.body

\* C4, its case: the created student (id 2) was read twice, and the second
\* read was served from the cache.
C4_Witness ==
    /\ Returned("GetById")
    /\ Last.id = 2
    /\ Last.hit
    /\ Last.pred # NULL
    /\ Last.pred.op = "GetById"

\* C5: GetStudentByIdAsync(id) that is answered not-found made one
\* persistence query and no cache write or removal, and leaves no live
\* entry under the record key; when that id is created afterwards, the first
\* GetStudentByIdAsync(id) that is answered reads persistence and returns
\* the created record.
C5_NegativeNotCached ==
    /\ (Returned("GetById") /\ Last.status = 404) =>
          /\ Last.body = NULL
          /\ ~Last.hit
          /\ Last.dbq = 1
          /\ ~Last.didSet
          /\ Last.invTried = {}
          /\ (NoneInFlight /\ Last.quiet) => ~Live(cache, StudentKey(Last.id), now)
    /\ ( /\ Returned("GetById")
         /\ Last.id \in hist.notFound
         /\ Last.pred # NULL
         /\ Last.pred.op = "Create"
         /\ Last.status # 500 )
       => /\ ~Last.hit
          /\ Last.dbq = 1
          /\ Last.status = 200
          /\ Last.body = Last.pred.body

\* C5, its case: an id that was answered not-found has been created and is
\* then read.
C5_Witness ==
    /\ Returned("GetById")
    /\ Last.id \in hist.notFound
    /\ Last.status = 200

\* C6: a read whose cache call failed, and whose persistence calls did not,
\* is not failed: it is answered from persistence.
C6_CacheFailureIsMiss ==
    (Last # NULL /\ Last.op \in Reads /\ Last.cacheFail /\ ~Last.dbFail) =>
       /\ Last.status = 200 \/ Last.status = 404
       /\ Last.dbq = 1

\* C7: a mutation that was committed and whose invalidation then failed
\* still returns its success result.
C7_InvalidationFailureKeepsWrite ==
    (Last # NULL /\ Last.op \in Mutations /\ Last.dbWrote /\ Last.cacheFail) =>
       Last.status \in SuccessStatus

\* C8: a mutation that began its invalidation attempted all three steps
\* before it returned.
C8_InvalidationStepsIndependent ==
    (Last # NULL /\ Last.op \in Mutations /\ Last.invTried # {}) =>
       Last.invTried = {1, 2, 3}

\* C9: a request one of whose persistence calls failed is answered 500
\* with no result; it committed nothing after the failure, attempted no
\* invalidation step and stored no cache entry.
C9_PersistenceFailureSurfaces ==
    (Last # NULL /\ Last.dbFail) =>
       /\ Last.status = ExceptionStatus
       /\ Last.body = NULL
       /\ ~Last.dbWrote
       /\ Last.invTried = {}
       /\ ~Last.didSet

\* C9, its case: the SaveChangesAsync of an update failed after its
\* FindAsync had found the row.
C9_Witness ==
    /\ Returned("Update")
    /\ Last.dbFail
    /\ Last.dbq = 1

\* C10: UpdateStudentAsync that is answered not-found committed nothing,
\* attempted no invalidation step and made no cache call; and the id has no
\* row.
C10_UpdateAbsentChangesNothing ==
    (Returned("Update") /\ Last.status = 404) =>
       /\ Last.body = NULL
       /\ Last.dbq = 1
       /\ ~Last.dbWrote
       /\ Last.invTried = {}
       /\ ~Last.didSet
       /\ ~Last.cacheFail
       /\ NoneInFlight => db[Last.id] = NULL

\* C10, its case: an update of an id with no row was answered not-found
\* while the cache held the collection.
C10_Witness ==
    /\ NoneInFlight
    /\ Returned("Update")
    /\ Last.status = 404
    /\ Live(cache, AllKey, now)

\* C11: DeleteStudentAsync that is answered true (204) removed the row and
\* ran all three invalidation steps, so the row, its record key and the
\* collection key are gone; answered false (404) it found no row, removed
\* nothing and made no cache call; with no failing call it is answered one
\* of the two; and a delete that follows a successful delete of the same id
\* is not answered true.
C11_DeleteSemantics ==
    Returned("Delete") =>
       /\ Last.status = 204 =>
             /\ Last.dbWrote
             /\ Last.invTried = {1, 2, 3}
             /\ NoneInFlight =>
                   /\ db[Last.id] = NULL
                   /\ cache[StudentKey(Last.id)] = NULL
                   /\ cache[AllKey] = NULL
       /\ Last.status = 404 =>
             /\ Last.dbq = 1
             /\ ~Last.dbWrote
             /\ Last.invTried = {}
             /\ ~Last.didSet
             /\ ~Last.cacheFail
             /\ NoneInFlight => db[Last.id] = NULL
       /\ (~Last.dbFail /\ ~Last.cacheFail) => Last.status \in {204, 404}
       /\ Last.pred # NULL =>
             /\ Last.status # 204
             /\ ~Last.dbFail => Last.status = 404

\* C11, its case: the second of two deletes of the same id was answered
\* not-found.
C11_Witness ==
    /\ Returned("Delete")
    /\ Last.pred # NULL
    /\ Last.pred.op = "Delete"
    /\ Last.status = 404

(***************************************************************************)
(* Properties of the cache providers, stated over Call, the call the       *)
(* script made last.                                                       *)
(***************************************************************************)
Call == bench.last

Called(op) == Call # NULL /\ Call.op = op

\* Every call of the script so far went through one instance: what one
\* request alone sees.
OwnInstance == Call.insts = {Call.inst}

\* What GetAsync<T> has to answer at time at for a key that the calls so
\* far say holds was: absent when nothing is held or the expiry is reached,
\* the stored value when it is a T.
AnswersAsSet(was, T, at, ret) ==
    IF was = NULL \/ at >= was.expiry THEN ret = NULL
    ELSE IsInstance(was.value.type, T) => ret = was.value

Wants(T) == IF T = "StudentDto" THEN "object" ELSE "array"

ShapeInMemory(v) ==
    CASE v.type = "StudentDto" -> "object"
      [] v.type = "List<StudentDto>" -> "array"
      [] OTHER -> v.val.kind

ShapeInRedis(v) ==
    CASE v.type = "StudentDto" -> "object"
      [] v.type = "List<StudentDto>" -> "array"
      [] OTHER -> "string"

\* C13: GetAsync<T> never lets a JsonException out, and on a live entry
\* whose payload is not of T and does not deserialize to T it answers
\* absent, in both variants.
C13_UndeserializableIsAbsent ==
    Called("Get") =>
       /\ Call.mem # JsonException
       /\ Call.red # JsonException
       /\ ( /\ Call.wasMem # NULL
            /\ Call.at < Call.wasMem.expiry
            /\ ShapeInMemory(Call.wasMem.value) # Wants(Call.T) )
          => Call.mem = NULL
       /\ ( /\ Call.wasRed # NULL
            /\ Call.at < Call.wasRed.expiry
            /\ ShapeInRedis(Call.wasRed.value) # Wants(Call.T) )
          => Call.red = NULL

\* C13, its case: a live string that holds a JSON object was asked for as a
\* collection.
C13_Witness ==
    /\ Called("Get")
    /\ Call.T = "IEnumerable<StudentDto>"
    /\ Call.liveMem
    /\ Call.liveRed
    /\ Call.wasMem # NULL
    /\ Call.wasMem.value.type = "String"

\* C14: in every state the script reaches and for every key, RemoveAsync
\* leaves no entry under the key, leaves every other entry as it was,
\* changes nothing live when the key has no live entry, and applied twice
\* gives the store that applying it once gives; and the RemoveAsync the
\* script made removed no other key.
C14_RemoveIdempotent ==
    /\ \A p \in Procs, key \in BenchKeys :
          LET m1 == Memory_RemoveAsync(bench.mem, p, key)
              m2 == Memory_RemoveAsync(m1, p, key)
              r1 == Redis_RemoveAsync(bench.red, key)
              r2 == Redis_RemoveAsync(r1, key)
          IN  /\ m2 = m1
              /\ r2 = r1
              /\ m1.cache[key] = NULL
              /\ r1.cache[key] = NULL
              /\ \A k \in BenchKeys \ {key} :
                    /\ m1.cache[k] = bench.mem.cache[k]
                    /\ r1.cache[k] = bench.red.cache[k]
              /\ ~Live(bench.mem.cache, key, bench.clock) =>
                    LiveView(m1.cache, bench.clock) = LiveView(bench.mem.cache, bench.clock)
              /\ ~Live(bench.red.cache, key, bench.clock) =>
                    LiveView(r1.cache, bench.clock) = LiveView(bench.red.cache, bench.clock)
    /\ Called("Remove") =>
          /\ Call.goneMem \subseteq {Call.key}
          /\ Call.goneRed \subseteq {Call.key}
          /\ bench.mem.cache[Call.key] = NULL
          /\ bench.red.cache[Call.key] = NULL

\* C14, its case: RemoveAsync was called on a key with no entry while
\* another key was live.
C14_Witness ==
    /\ Called("Remove")
    /\ ~Call.liveMem
    /\ ~Call.liveRed
    /\ Call.liveKeysMem # {}
    /\ Call.liveKeysRed # {}

\* The glob match the cache contract describes: the whole name, compared
\* case-insensitively.
LowerAll(str) == [i \in 1..Len(str) |-> ToLower(str[i])]

WholeNameMatch(pattern, key) == GlobMatch(LowerAll(pattern), LowerAll(key))

\* C15: RemoveByPatternAsync(p), with every call made through one instance,
\* removes exactly the live keys whose whole name matches the glob p
\* case-insensitively, in both variants.
C15_PatternRemovesExactlyMatches ==
    (Called("RemoveByPattern") /\ OwnInstance) =>
       /\ Call.goneMem = {k \in Call.liveKeysMem : WholeNameMatch(Call.key, k)}
       /\ Call.goneRed = {k \in Call.liveKeysRed : WholeNameMatch(Call.key, k)}

\* C16: ExistsAsync(k), with every call made through one instance,
\* answers true exactly when k has a live entry, in both variants.
C16_ExistsIffLive ==
    (Called("Exists") /\ OwnInstance) =>
       /\ Call.mem = Call.liveMem
       /\ Call.red = Call.liveRed

\* C17 (the part of it that pattern removal and ExistsAsync rest on, for one
\* instance): every live key whose entry was stored through an instance is
\* in that instance's key-tracking set.
C17_TrackerCoversLiveKeys ==
    \A p \in Procs :
       {k \in BenchKeys : Live(bench.mem.cache, k, bench.clock)
                             /\ bench.mem.cache[k].owner = p}
          \subseteq bench.mem.keyTracker[p]

\* C18: an entry that is live in the store, whichever request's instance
\* stored it, is seen by ExistsAsync through any instance.
C18_SharedAcrossRequests ==
    Called("Exists") =>
       /\ Call.liveMem => Call.mem
       /\ Call.liveRed => Call.red

\* C19: at every call of a script made through one instance the two
\* variants answer the same and remove the same keys.
C19_BackendSwap ==
    (Call # NULL /\ OwnInstance) =>
       /\ Call.mem = Call.red
       /\ Call.goneMem = Call.goneRed

\* C20: two reads of one key that are in flight together, have both missed
\* the cache and queried persistence, and stand at their SetAsync, hold the
\* same value to store (no request having failed after its write).
C20_ConcurrentMissesStoreSame ==
    \A p \in Procs, q \in Procs :
       ( /\ p # q
         /\ ~hist.lostInvalidation
         /\ req[p].pc \in {"ga_set", "gi_set"}
         /\ req[q].pc = req[p].pc
         /\ req[q].id = req[p].id )
       => req[q].tmp = req[p].tmp

\* C21: after a create, update or delete has returned with success, with no
\* other request in flight, the cache holds no live entry under any record
\* key student:<id> and none under the collection key.
C21_SweepCoversNamespace ==
    ( /\ Last # NULL
      /\ Last.op \in Mutations
      /\ Last.status \in SuccessStatus
      /\ NoneInFlight )
    => \A key \in Keys : ~Live(cache, key, now)

\* C22: the step in which CreateStudentAsync saves gives the new row an id
\* under which nothing is stored, whatever StudentId the input carries,
\* writes the input's field values there, leaves every other row as it
\* was, and holds the DTO of that id and those values; and the create that
\* is answered 201 carries that DTO.
C22_CreateAssignsFreshId ==
    [][ \A p \in Procs :
           /\ (req[p].pc = "cr_save" /\ req'[p].pc = "inv1") =>
                 LET id == req'[p].id
                     row == RowOf(req[p].input)
                 IN  /\ id \in Ids
                     /\ db[id] = NULL
                     /\ db'[id] = row
                     /\ \A i \in Ids \ {id} : db'[i] = db[i]
                     /\ req'[p].tmp = DtoOf(ToDto(id, row))
           /\ ( /\ req[p].op = "Create"
                /\ req[p].pc = "inv3"
                /\ req'[p].pc = "idle"
                /\ hist'.prev.status = 201 ) =>
                 /\ hist'.prev.body = req[p].tmp
                 /\ db' = db
      ]_vars

\* C22, its case: a create whose input carried StudentId 1, the id of a
\* stored record, was answered 201 with id 2 and the input's values, and
\* record 1 is as it was seeded.
C22_Witness ==
    /\ Returned("Create")
    /\ Last.status = 201
    /\ Last.body.val.StudentId = 2
    /\ Last.body.val.FullName = "Bob Johnson"
    /\ db[1] = SeedRow
    /\ db[2] # NULL
    /\ db[2].FullName = "Bob Johnson"

\* C23: the step in which UpdateStudentAsync saves on an existing record
\* leaves that record, under the path id, with the input's four field
\* values, whatever StudentId the input carries, leaves every other row as
\* it was, and holds the DTO of the path id and those values; and the update
\* that is answered 200 carries that DTO.
C23_UpdateOverwritesFields ==
    [][ \A p \in Procs :
           /\ (req[p].pc = "up_save" /\ req'[p].pc = "inv1") =>
                 LET id == req[p].id
                     row == RowOf(req[p].input)
                 IN  /\ req'[p].id = id
                     /\ db[id] # NULL
                     /\ db'[id] = row
                     /\ \A i \in Ids \ {id} : db'[i] = db[i]
                     /\ req'[p].tmp = DtoOf(ToDto(id, row))
                     /\ nextId' = nextId
           /\ ( /\ req[p].op = "Update"
                /\ req[p].pc = "inv3"
                /\ req'[p].pc = "idle"
                /\ hist'.prev.status = 200 ) =>
                 /\ hist'.prev.body = req[p].tmp
                 /\ db' = db
      ]_vars

\* C23, its case: an update of record 2 whose input carried StudentId 1 was
\* answered 200 with id 2 and the input's values; record 2 holds them and
\* record 1 is as it was seeded.
C23_Witness ==
    /\ Returned("Update")
    /\ Last.status = 200
    /\ Last.id = 2
    /\ Last.dbWrote
    /\ Last.body.val.StudentId = 2
    /\ Last.body.val.FullName = "Bob Johnson"
    /\ db[2] # NULL
    /\ db[2].FullName = "Bob Johnson"
    /\ db[2].IsActive = FALSE
    /\ db[1] = SeedRow

\* C24: no request whose body fails validation is ever in flight in the
\* service; a request that arrives and does not enter the service is a
\* create or update answered 400, in one step that leaves persistence,
\* cache and the requests in flight as they were.
C24_ValidationFailedChangesNothing ==
    [][ /\ \A p \in Procs :
              (req'[p].pc # "idle" /\ req'[p].input # NULL) => req'[p].input \in Inputs
        /\ ( /\ hist'.issued # hist.issued
             /\ \A p \in Procs : req'[p].pc # "idle" => req[p].pc # "idle" ) =>
              /\ hist'.prev.status = BadRequestStatus
              /\ hist'.prev.op \in {"Create", "Update"}
              /\ db' = db
              /\ nextId' = nextId
              /\ cache' = cache
              /\ keyTracker' = keyTracker
              /\ req' = req
      ]_vars

\* C24, its case: a create was answered 400 while the collection was cached,
\* and nothing was created.
C24_Witness ==
    /\ Returned("Create")
    /\ Last.status = BadRequestStatus
    /\ Live(cache, AllKey, now)
    /\ nextId = 2
    /\ db[2] = NULL

\* The cache key a read works on.
KeyOf(r) == IF r.op = "GetAll" THEN AllKey ELSE StudentKey(r.id)

\* C25: an entry appears or gets another expiry only in the SetAsync step of
\* a read of its key, and its expiry is then that moment plus 5 minutes for
\* the collection and plus 10 for a record; a read answered from the cache
\* found an entry stored less than that long ago and leaves its expiry as
\* it was.
C25_BoundedStaleness ==
    [][ /\ \A key \in Keys :
              ( /\ cache'[key] # NULL
                /\ \/ cache[key] = NULL
                   \/ cache'[key].expiry # cache[key].expiry ) =>
                 /\ \E p \in Procs : /\ req[p].pc \in {"ga_set", "gi_set"}
                                     /\ KeyOf(req[p]) = key
                                     /\ req'[p].pc = "idle"
                 /\ cache'[key].expiry = now + (IF key = AllKey THEN 5 ELSE 10)
        /\ \A p \in Procs :
              ( /\ req[p].pc \in {"ga_get", "gi_get"}
                /\ req'[p].pc = "idle"
                /\ hist'.prev.hit ) =>
                 LET e == cache[KeyOf(req[p])]
                     age == now - (e.expiry - (IF req[p].op = "GetAll" THEN 5 ELSE 10))
                 IN  /\ e # NULL
                     /\ age >= 0
                     /\ age < (IF req[p].op = "GetAll" THEN 5 ELSE 10)
                     /\ cache'[KeyOf(req[p])] # NULL
                     /\ cache'[KeyOf(req[p])].expiry = e.expiry
      ]_vars

\* C25, its case: of three requests the last was a record read answered
\* from the cache; the record's entry was stored at minute 0 (it expires at
\* minute 10) and the read came after the collection was stored at minute
\* 5 (it expires at minute 10), so the record served was five minutes old.
C25_Witness ==
    /\ Returned("GetById")
    /\ Last.hit
    /\ hist.issued = 3
    /\ NoneInFlight
    /\ cache[AllKey] # NULL
    /\ cache[AllKey].expiry = 10
    /\ cache[StudentKey(Last.id)] # NULL
    /\ cache[StudentKey(Last.id)].expiry = 10

\* The type a read asks the cache for under a key.
TypeOf(key) == IF key = AllKey THEN "IEnumerable<StudentDto>" ELSE "StudentDto"

\* Every live entry is answered by the cache as persistence now holds it.
Coherent ==
    \A key \in Keys :
       Live(cache, key, now) => Cached(key, TypeOf(key)) = Persisted(key)

MostRecent(s, n) == IF Len(s) <= n THEN s ELSE SubSeq(s, Len(s) - n + 1, Len(s))

\* C27: after any sequence of log calls the buffer holds at most maxLogs
\* entries, and they are the most recent entries logged since the buffer was
\* last cleared, in the order they were logged (so what an overflow drops is
\* the oldest entry); right after clearLogs the buffer is empty.
C27_LoggerBufferBounded ==
    /\ Len(Logger_getAllLogs) <= maxLogs
    /\ Logger_getAllLogs = MostRecent(logger.since, maxLogs)
    /\ logger.last = "clearLogs" => Logger_getAllLogs = <<>>

\* A log call has overflowed the buffer: more entries were logged than it
\* holds, it is full and its oldest entry is no longer the first one logged.
C27_Witness ==
    /\ logger.last = "log"
    /\ Len(logger.since) > maxLogs
    /\ Len(logger.logs) = maxLogs
    /\ logger.logs[1].timestamp > logger.since[1].timestamp

(***************************************************************************)
(* The student list component.                                             *)
(***************************************************************************)
\* A fetchStudents run has completed and none is pending.
FetchRunEnded == view.run # NULL /\ view.fetching = 0

\* C28: every fetchStudents run eventually ends with loading = false, whether
\* its API call resolves or rejects; once a run has completed, error is
\* non-null exactly when the run's API call failed, and after a failed run
\* the list is the one shown before the run.
C28_FetchSettles ==
    /\ [](FetchRunEnded =>
             /\ ~view.loading
             /\ (view.error # NULL) <=> view.run.failed
             /\ view.run.failed => view.students = view.run.before)
    /\ (view.fetching > 0) ~> (view.fetching = 0 /\ ~view.loading)

\* A run started by Retry has failed: the spinner is off and the error set.
C28_Witness ==
    /\ FetchRunEnded
    /\ view.run.failed
    /\ view.apiCalls >= 2
    /\ ~view.loading
    /\ view.error # NULL
    /\ view.error.value = "Failed to fetch students"

\* C29: at most one loadMoreStudents run is in flight, whatever the scroll
\* events; the step that ends a run, resolved, rejected or returning early,
\* leaves isLoadingMore false; once hasMore is false it stays false and no
\* new loadMoreStudents run starts.
C29_SingleLoadMore ==
    [][ /\ Len(view'.loadingMore) <= 1
        /\ Len(view'.loadingMore) < Len(view.loadingMore) => ~view'.isLoadingMore
        /\ ~view.hasMore => /\ ~view'.hasMore
                            /\ Len(view'.loadingMore) <= Len(view.loadingMore)
      ]_vars

\* A scroll event near the bottom arrived while a run was in flight and
\* started nothing; the run has ended and hasMore is false.
C29_Witness ==
    /\ view.ignored
    /\ ~view.hasMore
    /\ ~view.isLoadingMore
    /\ Len(view.loadingMore) = 0
    /\ view.currentPage = 1

====
